---- MODULE Spec2Model ----
(***************************************************************************)
(* Quiz backend (FastAPI + SQLAlchemy async sessions over SQLite).         *)
(*                                                                         *)
(* The database tables are the shared state.  Every request handler is a   *)
(* coroutine: it runs without interruption between two awaits, and each    *)
(* await of the persistence layer (a SELECT, a commit, a refresh) is a     *)
(* point where other handlers may run.  One action of this module is one   *)
(* such uninterrupted stretch of one handler.                              *)
(*                                                                         *)
(* An ORM object loaded by a session keeps, per attribute, the value that  *)
(* was loaded; the flush at commit issues one INSERT per added object and  *)
(* one UPDATE per modified object that sets only the attributes whose      *)
(* value differs from the loaded one.  The pysqlite driver opens a         *)
(* transaction only before the first INSERT/UPDATE, so a SELECT sees the   *)
(* rows committed so far and holds no lock afterwards.                     *)
(*                                                                         *)
(* Strings are tuples of one-character strings.                            *)
(***************************************************************************)
EXTENDS Integers, Sequences, FiniteSets, TLC

VARIABLES users, solutions, tasks, calls, ret

vars == <<users, solutions, tasks, calls, ret>>

(***************************************************************************)
(* Bounds.                                                                 *)
(***************************************************************************)
\* number of requests in one run
MaxCalls == 2

Calls == 1..MaxCalls

(***************************************************************************)
(* Program constants.                                                      *)
(***************************************************************************)
\* user.level = (user.score // 100) + 1
LevelStep == 100
\* score: Mapped[int] = mapped_column(default=0)
DefaultScore == 0
\* level: Mapped[int] = mapped_column(default=1)
DefaultLevel == 1

\* Python's None where a string is expected (no string holds this element)
NoneStr == <<"None">>

\* Python's None where a row or an ORM object is expected: row ids start at 1
NoRow == 0

(***************************************************************************)
(* Enumerations and the problem catalogue.                                 *)
(***************************************************************************)
Subject == {"math", "informatics"}

Difficulty == {"easy", "medium", "hard"}

\* Rows of the problems table, id = index.  The table is filled once (the
\* seed, or whatever the deployment inserted) and never written by a handler.
\* Two rows, one per subject, one with a multi-valued answer; the points are
\* chosen so that scores on both sides of the level boundary are reached
\* within MaxCalls submissions.
problems ==
  << [subject |-> "math", difficulty |-> "easy",
      correct_answer |-> <<"2", ";", "3">>, points |-> 100],
     [subject |-> "informatics", difficulty |-> "medium",
      correct_answer |-> <<"O", " ", "n">>, points |-> 1] >>

ProblemIds == 1..Len(problems)

(***************************************************************************)
(* Answer normalisation and matching.                                      *)
(***************************************************************************)
Whitespace == {" "}

Delimiters == {";", ","}

\* str.lower() on the model's alphabet
LowerChar(ch) ==
  IF ch = "O" THEN "o" ELSE IF ch = "N" THEN "n" ELSE ch

RECURSIVE Lower(_)
Lower(s) ==
  IF s = <<>> THEN <<>> ELSE <<LowerChar(Head(s))>> \o Lower(Tail(s))

\* re.sub(r'\s+', '', s)
RECURSIVE RemoveWhitespace(_)
RemoveWhitespace(s) ==
  IF s = <<>> THEN <<>>
  ELSE IF Head(s) \in Whitespace THEN RemoveWhitespace(Tail(s))
  ELSE <<Head(s)>> \o RemoveWhitespace(Tail(s))

\* s.replace(',', '.')
RECURSIVE ReplaceComma(_)
ReplaceComma(s) ==
  IF s = <<>> THEN <<>>
  ELSE <<IF Head(s) = "," THEN "." ELSE Head(s)>> \o ReplaceComma(Tail(s))

\* s.lstrip()
RECURSIVE LStrip(_)
LStrip(s) ==
  IF s # <<>> /\ Head(s) \in Whitespace THEN LStrip(Tail(s)) ELSE s

\* s.rstrip()
RECURSIVE RStrip(_)
RStrip(s) ==
  IF s # <<>> /\ s[Len(s)] \in Whitespace
  THEN RStrip(SubSeq(s, 1, Len(s) - 1)) ELSE s

\* s.strip()
Strip(s) == RStrip(LStrip(s))

\* services._normalize_answer
NormalizeAnswer(s) == Strip(ReplaceComma(RemoveWhitespace(Lower(s))))

\* re.split(r'[;,]', s), as the set of the parts
RECURSIVE SplitParts(_, _)
SplitParts(s, cur) ==
  IF s = <<>> THEN {cur}
  ELSE IF Head(s) \in Delimiters
       THEN {cur} \cup SplitParts(Tail(s), <<>>)
       ELSE SplitParts(Tail(s), Append(cur, Head(s)))

\* services._answer_to_set
AnswerToSet(s) == {NormalizeAnswer(p) : p \in SplitParts(s, <<>>) \ {<<>>}}

\* re.search(r'[;,]', s)
HasDelimiter(s) == \E i \in 1..Len(s) : s[i] \in Delimiters

\* the comparison of services.check_solution
SvcIsCorrect(user_answer, correct_raw) ==
  IF HasDelimiter(correct_raw)
  THEN AnswerToSet(user_answer) = AnswerToSet(correct_raw)
  ELSE NormalizeAnswer(user_answer) = NormalizeAnswer(correct_raw)

\* the comparison of requests.check_solution
RqIsCorrect(user_answer, correct_answer) ==
  Lower(Strip(user_answer)) = Lower(Strip(correct_answer))

(***************************************************************************)
(* The persistence layer.                                                  *)
(***************************************************************************)
\* User(tg_id=tg_id) as inserted: score and level take the column defaults
NewUserRow(tg_id) ==
  [tg_id |-> tg_id, score |-> DefaultScore, level |-> DefaultLevel]

\* session.scalar(select(User).where(User.tg_id == tg_id)): the id of the
\* first matching row (SQLite scans the table in rowid order), NoRow if none
UserIdByTg(tg_id) ==
  IF \E i \in DOMAIN users : users[i].tg_id = tg_id
  THEN CHOOSE i \in DOMAIN users :
         /\ users[i].tg_id = tg_id
         /\ \A j \in DOMAIN users : users[j].tg_id = tg_id => i <= j
  ELSE NoRow

\* session.scalar(select(User).where(User.id == user_id)), and
\* session.refresh(user): the ORM object, which remembers the loaded values
LoadUser(user_id) ==
  IF user_id \in DOMAIN users
  THEN [id |-> user_id,
        score |-> users[user_id].score, level |-> users[user_id].level,
        loaded_score |-> users[user_id].score,
        loaded_level |-> users[user_id].level]
  ELSE [id |-> NoRow, score |-> 0, level |-> 0,
        loaded_score |-> 0, loaded_level |-> 0]

\* session.scalar(select(Problem).where(Problem.id == problem_id))
LoadProblem(problem_id) ==
  IF problem_id \in ProblemIds THEN problem_id ELSE NoRow

\* the UPDATE the flush issues for a loaded user: only the attributes whose
\* value differs from the loaded one are set
FlushUser(us, user) ==
  IF user.id = NoRow THEN us
  ELSE [us EXCEPT ![user.id] =
          [@ EXCEPT !.score = IF user.score # user.loaded_score
                              THEN user.score ELSE @,
                    !.level = IF user.level # user.loaded_level
                              THEN user.level ELSE @]]

\* UserSolution(user_id=..., problem_id=..., user_answer=..., is_correct=...)
SolutionRow(user_id, problem_id, user_answer, is_correct) ==
  [user_id |-> user_id, problem_id |-> problem_id,
   user_answer |-> user_answer, is_correct |-> is_correct]

(***************************************************************************)
(* Scoring.                                                                *)
(***************************************************************************)
\* ApplyResult without its "if is_correct:"
ApplyResultAlways(user, points, is_correct) ==
  [user EXCEPT !.score = user.score + points,
               !.level = ((user.score + points) \div LevelStep) + 1]

\* if is_correct: user.score += problem.points;
\*                user.level = user.score // 100 + 1
\* (services.check_solution and requests.check_solution alike)
ApplyResult(user, points, is_correct) ==
  IF is_correct
  THEN [user EXCEPT !.score = user.score + points,
                    !.level = ((user.score + points) \div LevelStep) + 1]
  ELSE user

(***************************************************************************)
(* Requests.                                                               *)
(***************************************************************************)
Idle == [pc |-> "idle"]

Done == [pc |-> "done"]

NoResponse == [op |-> "none"]

\* requests arrive one slot after the other
CanStart(c) ==
  /\ calls[c].pc = "idle"
  /\ \A d \in Calls : d < c => calls[d].pc # "idle"

At(c, op, pc) == calls[c].pc = pc /\ calls[c].op = op

Goto(c, pc) == [calls EXCEPT ![c] = [@ EXCEPT !.pc = pc]]

Return(c, response) ==
  /\ calls' = [calls EXCEPT ![c] = Done]
  /\ ret' = response

Init ==
  /\ users = <<>>
  /\ solutions = <<>>
  /\ tasks = <<>>
  /\ calls = [c \in Calls |-> Idle]
  /\ ret = NoResponse

(***************************************************************************)
(* services.add_user(tg_id=tg_id)                                          *)
(***************************************************************************)
AddUserResponse(tg_id, user_id, created) ==
  [op |-> "add_user", mod |-> "services", tg_id |-> tg_id,
   user_id |-> user_id, created |-> created]

\* the call, up to its first await: "if tg_id:" is false for 0, "if email:"
\* is false for None, and the function falls off its end
StartSvcAddUser(c, tg_ids) ==
  /\ CanStart(c)
  /\ \E tg_id \in tg_ids :
       IF tg_id # 0
       THEN /\ calls' = [calls EXCEPT ![c] =
                 [op |-> "svc_add_user", pc |-> "select", tg_id |-> tg_id]]
            /\ UNCHANGED ret
       ELSE Return(c, AddUserResponse(tg_id, NoRow, FALSE))
  /\ UNCHANGED <<users, solutions, tasks>>

\* user = await session.scalar(select(User).where(User.tg_id == tg_id))
SvcAddUserSelect(c) ==
  /\ At(c, "svc_add_user", "select")
  /\ LET user_id == UserIdByTg(calls[c].tg_id) IN
       IF user_id # NoRow
       THEN Return(c, AddUserResponse(calls[c].tg_id, user_id, FALSE))
       ELSE calls' = Goto(c, "commit") /\ UNCHANGED ret
  /\ UNCHANGED <<users, solutions, tasks>>

\* session.add(new_user); await session.commit()
SvcAddUserCommit(c) ==
  /\ At(c, "svc_add_user", "commit")
  /\ users' = Append(users, NewUserRow(calls[c].tg_id))
  /\ calls' = [calls EXCEPT ![c] =
        [@ EXCEPT !.pc = "refresh"] @@ [new_id |-> Len(users) + 1]]
  /\ UNCHANGED <<solutions, tasks, ret>>

\* await session.refresh(new_user); return new_user
SvcAddUserRefresh(c) ==
  /\ At(c, "svc_add_user", "refresh")
  /\ Return(c, AddUserResponse(calls[c].tg_id, calls[c].new_id, TRUE))
  /\ UNCHANGED <<users, solutions, tasks>>

(***************************************************************************)
(* services.check_solution(user_id, problem_id, user_answer)               *)
(***************************************************************************)
CheckResponse(mod, call, outcome, correct, answer, points, score) ==
  [op |-> "check_solution", mod |-> mod,
   user_id |-> call.user_id, problem_id |-> call.problem_id,
   user_answer |-> call.user_answer, outcome |-> outcome,
   correct |-> correct, correct_answer |-> answer,
   points_earned |-> points, new_score |-> score,
   \* bookkeeping of the run: whether the two SELECTs found a row, the row
   \* this call inserted, and the score the user row held when this call last
   \* read it
   problem_found |-> call.problem # NoRow, user_found |-> call.user.id # NoRow,
   row |-> call.row, read_score |-> call.read_score]

StartSvcCheckSolution(c, user_ids, problem_ids, answers) ==
  /\ CanStart(c)
  /\ \E user_id \in user_ids, problem_id \in problem_ids,
        user_answer \in answers :
       calls' = [calls EXCEPT ![c] =
         [op |-> "svc_check_solution", pc |-> "select",
          user_id |-> user_id, problem_id |-> problem_id,
          user_answer |-> user_answer, problem |-> NoRow,
          user |-> LoadUser(NoRow), is_correct |-> FALSE,
          row |-> NoRow, read_score |-> 0]]
  /\ UNCHANGED <<users, solutions, tasks, ret>>

\* problem = await session.scalar(select(Problem)...)
\* user = await session.scalar(select(User)...)
\* then the existence check, the comparison, the update of the loaded user and
\* session.add(solution).  No handler writes the problems table, so the two
\* SELECTs are one step: the first reads the same row whenever it runs.
SvcCheckSelect(c) ==
  /\ At(c, "svc_check_solution", "select")
  /\ LET user == LoadUser(calls[c].user_id)
         call == [calls[c] EXCEPT !.problem = LoadProblem(calls[c].problem_id),
                                  !.user = user]
     IN IF call.problem = NoRow \/ user.id = NoRow
        THEN Return(c, CheckResponse("services", call, "notfound",
                                     FALSE, NoneStr, 0, 0))
        ELSE LET problem == problems[call.problem]
                 is_correct ==
                   SvcIsCorrect(call.user_answer, problem.correct_answer)
             IN /\ calls' = [calls EXCEPT ![c] =
                     [call EXCEPT !.pc = "commit",
                               !.is_correct = is_correct,
                               !.read_score = user.loaded_score,
                               !.user = ApplyResult(user, problem.points,
                                                    is_correct)]]
                /\ UNCHANGED ret
  /\ UNCHANGED <<users, solutions, tasks>>

\* await session.commit(): the INSERT of the solution and the UPDATE of the
\* user, in one transaction
SvcCheckCommit(c) ==
  /\ At(c, "svc_check_solution", "commit")
  /\ LET call == calls[c] IN
       /\ solutions' = Append(solutions,
            SolutionRow(call.user_id, call.problem_id, call.user_answer,
                        call.is_correct))
       /\ users' = FlushUser(users, call.user)
       /\ calls' = [calls EXCEPT ![c] =
            [@ EXCEPT !.pc = "refresh", !.row = Len(solutions) + 1]]
  /\ UNCHANGED <<tasks, ret>>

\* await session.refresh(user); return {...}
SvcCheckRefresh(c) ==
  /\ At(c, "svc_check_solution", "refresh")
  /\ LET user == LoadUser(calls[c].user_id)
         call == [calls[c] EXCEPT !.read_score = user.loaded_score]
         problem == problems[call.problem]
     IN Return(c, CheckResponse("services", call, "ok", call.is_correct,
                  IF call.is_correct THEN NoneStr
                                     ELSE problem.correct_answer,
                  IF call.is_correct THEN problem.points ELSE 0,
                  user.score))
  /\ UNCHANGED <<users, solutions, tasks>>


(***************************************************************************)
(* main.solve_problem: POST /api/solve/                                    *)
(*   user = await rq.add_user(solution.tg_id)                              *)
(*   return await rq.check_solution(user.id, problem_id, user_answer)      *)
(***************************************************************************)
StartSolveProblem(c, tg_ids, problem_ids, answers) ==
  /\ CanStart(c)
  /\ \E tg_id \in tg_ids, problem_id \in problem_ids, user_answer \in answers :
       calls' = [calls EXCEPT ![c] =
         [op |-> "solve_problem", pc |-> "add_user_select",
          tg_id |-> tg_id, user_id |-> NoRow, problem_id |-> problem_id,
          user_answer |-> user_answer, problem |-> NoRow,
          user |-> LoadUser(NoRow), is_correct |-> FALSE,
          row |-> NoRow, read_score |-> 0]]
  /\ UNCHANGED <<users, solutions, tasks, ret>>

\* requests.add_user: user = await session.scalar(select(User).where(...))
RqAddUserSelect(c, op, then) ==
  /\ At(c, op, "add_user_select")
  /\ LET user_id == UserIdByTg(calls[c].tg_id) IN
       calls' = IF user_id # NoRow
                THEN [calls EXCEPT ![c] =
                        [@ EXCEPT !.pc = then, !.user_id = user_id]]
                ELSE Goto(c, "add_user_commit")
  /\ UNCHANGED <<users, solutions, tasks, ret>>

\* requests.add_user: session.add(new_user); await session.commit();
\* await session.refresh(new_user); return new_user.  The callers in main.py
\* read only the id of the returned user, which the INSERT sets, and go on to
\* another await: the refresh is no step of its own.
RqAddUserCommit(c, op, then) ==
  /\ At(c, op, "add_user_commit")
  /\ users' = Append(users, NewUserRow(calls[c].tg_id))
  /\ calls' = [calls EXCEPT ![c] =
        [@ EXCEPT !.pc = then, !.user_id = Len(users) + 1]]
  /\ UNCHANGED <<solutions, tasks, ret>>

SolveAddUserSelect(c) == RqAddUserSelect(c, "solve_problem", "select")

SolveAddUserCommit(c) == RqAddUserCommit(c, "solve_problem", "select")

\* requests.check_solution:
\*   problem = await session.scalar(select(Problem)...)
\*   user = await session.scalar(select(User)...)
\* (one step, as in SvcCheckSelect); the comparison reads
\* problem.correct_answer (an AttributeError on None), the update reads
\* user.score (the same); then session.add(solution)
RqCheckSelect(c) ==
  /\ At(c, "solve_problem", "select")
  /\ LET user == LoadUser(calls[c].user_id)
         call == [calls[c] EXCEPT !.problem = LoadProblem(calls[c].problem_id),
                                  !.user = user]
     IN IF call.problem = NoRow
        THEN Return(c, CheckResponse("requests", call, "crash",
                                     FALSE, NoneStr, 0, 0))
        ELSE LET problem == problems[call.problem]
                 is_correct ==
                   RqIsCorrect(call.user_answer, problem.correct_answer)
             IN IF is_correct /\ user.id = NoRow
                THEN Return(c, CheckResponse("requests", call, "crash",
                                             FALSE, NoneStr, 0, 0))
                ELSE /\ calls' = [calls EXCEPT ![c] =
                          [call EXCEPT !.pc = "commit",
                                    !.is_correct = is_correct,
                                    !.read_score = user.loaded_score,
                                    !.user = ApplyResult(user, problem.points,
                                                         is_correct)]]
                     /\ UNCHANGED ret
  /\ UNCHANGED <<users, solutions, tasks>>

\* requests.check_solution: await session.commit(); return {...}, whose
\* 'new_score' reads user.score
RqCheckCommit(c) ==
  /\ At(c, "solve_problem", "commit")
  /\ LET call == [calls[c] EXCEPT !.row = Len(solutions) + 1]
         problem == problems[call.problem]
     IN /\ solutions' = Append(solutions,
             SolutionRow(call.user_id, call.problem_id, call.user_answer,
                         call.is_correct))
        /\ users' = FlushUser(users, call.user)
        /\ IF call.user.id = NoRow
           THEN Return(c, CheckResponse("requests", call, "crash",
                                        FALSE, NoneStr, 0, 0))
           ELSE Return(c, CheckResponse("requests", call, "ok",
                    call.is_correct,
                    IF ~call.is_correct THEN problem.correct_answer
                                        ELSE NoneStr,
                    IF call.is_correct THEN problem.points ELSE 0,
                    call.user.score))
  /\ UNCHANGED tasks

(***************************************************************************)
(* services.get_user_stats(user_id)                                        *)
(***************************************************************************)
\* select(func.count(UserSolution.id)).where(user_id == ..., is_correct)
CountSolved(user_id) ==
  Cardinality({i \in DOMAIN solutions :
                 /\ solutions[i].user_id = user_id
                 /\ solutions[i].is_correct})

\* the same count joined to the problem and filtered on its subject
CountSolvedIn(user_id, subject) ==
  Cardinality({i \in DOMAIN solutions :
                 /\ solutions[i].user_id = user_id
                 /\ solutions[i].is_correct
                 /\ solutions[i].problem_id \in ProblemIds
                 /\ problems[solutions[i].problem_id].subject = subject})

StatsResponse(mod, call, outcome) ==
  [op |-> "get_user_stats", mod |-> mod, user_id |-> call.user_id,
   outcome |-> outcome, score |-> call.user.score, level |-> call.user.level,
   solved_count |-> call.solved_count, math_solved |-> call.math_solved,
   informatics_solved |-> call.informatics_solved]

StatsLocals ==
  [user |-> LoadUser(NoRow), solved_count |-> 0, math_solved |-> 0,
   informatics_solved |-> 0]

StartSvcGetUserStats(c, user_ids) ==
  /\ CanStart(c)
  /\ \E user_id \in user_ids :
       calls' = [calls EXCEPT ![c] =
         [op |-> "svc_get_user_stats", pc |-> "select",
          user_id |-> user_id] @@ StatsLocals]
  /\ UNCHANGED <<users, solutions, tasks, ret>>

\* user = await session.scalar(select(User)...); if not user: return None
SvcStatsSelect(c) ==
  /\ At(c, "svc_get_user_stats", "select")
  /\ LET user == LoadUser(calls[c].user_id) IN
       IF user.id = NoRow
       THEN Return(c, StatsResponse("services", calls[c], "none"))
       ELSE /\ calls' = [calls EXCEPT ![c] =
                 [@ EXCEPT !.pc = "count_all", !.user = user]]
            /\ UNCHANGED ret
  /\ UNCHANGED <<users, solutions, tasks>>

\* solved_count = await session.scalar(...) or 0
SvcStatsCountAll(c) ==
  /\ At(c, "svc_get_user_stats", "count_all")
  /\ calls' = [calls EXCEPT ![c] =
        [@ EXCEPT !.pc = "count_math",
                  !.solved_count = CountSolved(calls[c].user_id)]]
  /\ UNCHANGED <<users, solutions, tasks, ret>>

\* math_solved = await session.scalar(...) or 0
SvcStatsCountMath(c) ==
  /\ At(c, "svc_get_user_stats", "count_math")
  /\ calls' = [calls EXCEPT ![c] =
        [@ EXCEPT !.pc = "count_informatics",
                  !.math_solved = CountSolvedIn(calls[c].user_id, "math")]]
  /\ UNCHANGED <<users, solutions, tasks, ret>>

\* informatics_solved = await session.scalar(...) or 0; return {...}
SvcStatsCountInformatics(c) ==
  /\ At(c, "svc_get_user_stats", "count_informatics")
  /\ Return(c, StatsResponse("services",
        [calls[c] EXCEPT !.informatics_solved =
           CountSolvedIn(calls[c].user_id, "informatics")], "ok"))
  /\ UNCHANGED <<users, solutions, tasks>>

(***************************************************************************)
(* main.get_stats: GET /api/stats/{tg_id}                                  *)
(*   user = await rq.add_user(tg_id)                                       *)
(*   return await rq.get_user_stats(user.id)                               *)
(***************************************************************************)
StartGetStats(c, tg_ids) ==
  /\ CanStart(c)
  /\ \E tg_id \in tg_ids :
       calls' = [calls EXCEPT ![c] =
         [op |-> "get_stats", pc |-> "add_user_select", tg_id |-> tg_id,
          user_id |-> NoRow] @@ StatsLocals]
  /\ UNCHANGED <<users, solutions, tasks, ret>>

StatsAddUserSelect(c) == RqAddUserSelect(c, "get_stats", "select")

StatsAddUserCommit(c) == RqAddUserCommit(c, "get_stats", "select")

\* requests.get_user_stats: user = await session.scalar(select(User)...)
RqStatsSelect(c) ==
  /\ At(c, "get_stats", "select")
  /\ calls' = [calls EXCEPT ![c] =
        [@ EXCEPT !.pc = "count_all", !.user = LoadUser(calls[c].user_id)]]
  /\ UNCHANGED <<users, solutions, tasks, ret>>

\* requests.get_user_stats: solved_count = await session.scalar(...)
RqStatsCountAll(c) ==
  /\ At(c, "get_stats", "count_all")
  /\ calls' = [calls EXCEPT ![c] =
        [@ EXCEPT !.pc = "count_math",
                  !.solved_count = CountSolved(calls[c].user_id)]]
  /\ UNCHANGED <<users, solutions, tasks, ret>>

\* requests.get_user_stats: math_solved = await session.scalar(...)
RqStatsCountMath(c) ==
  /\ At(c, "get_stats", "count_math")
  /\ calls' = [calls EXCEPT ![c] =
        [@ EXCEPT !.pc = "count_informatics",
                  !.math_solved = CountSolvedIn(calls[c].user_id, "math")]]
  /\ UNCHANGED <<users, solutions, tasks, ret>>

\* requests.get_user_stats: informatics_solved = await session.scalar(...);
\* return UserStatsSchema(score=user.score, ...), an AttributeError on None
RqStatsCountInformatics(c) ==
  /\ At(c, "get_stats", "count_informatics")
  /\ Return(c, StatsResponse("requests",
        [calls[c] EXCEPT !.informatics_solved =
           CountSolvedIn(calls[c].user_id, "informatics")],
        IF calls[c].user.id = NoRow THEN "crash" ELSE "ok"))
  /\ UNCHANGED <<users, solutions, tasks>>

(***************************************************************************)
(* get_problems(subject, difficulty)                                       *)
(***************************************************************************)
\* Query(None): the parameter is absent from the request
Absent == "<absent>"

\* Python truthiness of an optional string
Truthy(x) == x # Absent /\ x # ""

ProblemIdSeq == [i \in ProblemIds |-> i]

\* select(Problem) with the where-clauses that were added, in rowid order
SelectProblems(by_subject, subject, by_difficulty, difficulty) ==
  LET Keep(i) ==
        /\ by_subject => problems[i].subject = subject
        /\ by_difficulty => problems[i].difficulty = difficulty
  IN SelectSeq(ProblemIdSeq, Keep)

ProblemsResponse(mod, call, outcome, result) ==
  [op |-> "get_problems", mod |-> mod, subject |-> call.subject,
   difficulty |-> call.difficulty, outcome |-> outcome, result |-> result]

StartSvcGetProblems(c, subjects, difficulties) ==
  /\ CanStart(c)
  /\ \E subject \in subjects, difficulty \in difficulties :
       calls' = [calls EXCEPT ![c] =
         [op |-> "svc_get_problems", pc |-> "select", subject |-> subject,
          difficulty |-> difficulty]]
  /\ UNCHANGED <<users, solutions, tasks, ret>>

\* services.get_problems: Subject(subject) and Difficulty(difficulty) raise
\* ValueError on a value of no member, which "except Exception: pass" drops
\* together with the where-clause
SvcGetProblemsSelect(c) ==
  /\ At(c, "svc_get_problems", "select")
  /\ LET call == calls[c] IN
       Return(c, ProblemsResponse("services", call, "ok",
         SelectProblems(Truthy(call.subject) /\ call.subject \in Subject,
                        call.subject,
                        Truthy(call.difficulty)
                          /\ call.difficulty \in Difficulty,
                        call.difficulty)))
  /\ UNCHANGED <<users, solutions, tasks>>

\* main.get_problems -> requests.get_problems, up to its await: Subject(...)
\* and Difficulty(...) are not guarded, the ValueError leaves the handler
StartApiGetProblems(c, subjects, difficulties) ==
  /\ CanStart(c)
  /\ \E subject \in subjects, difficulty \in difficulties :
       LET call == [op |-> "api_get_problems", pc |-> "select",
                    subject |-> subject, difficulty |-> difficulty]
       IN IF \/ Truthy(subject) /\ subject \notin Subject
             \/ Truthy(difficulty) /\ difficulty \notin Difficulty
          THEN Return(c, ProblemsResponse("requests", call, "crash", <<>>))
          ELSE calls' = [calls EXCEPT ![c] = call] /\ UNCHANGED ret
  /\ UNCHANGED <<users, solutions, tasks>>

\* requests.get_problems: problems = await session.scalars(query)
RqGetProblemsSelect(c) ==
  /\ At(c, "api_get_problems", "select")
  /\ LET call == calls[c] IN
       Return(c, ProblemsResponse("requests", call, "ok",
         SelectProblems(Truthy(call.subject), call.subject,
                        Truthy(call.difficulty), call.difficulty)))
  /\ UNCHANGED <<users, solutions, tasks>>

(***************************************************************************)
(* services.create_task_for_tg(tg_id, title)                               *)
(***************************************************************************)
TaskResponse(call, outcome, task_id) ==
  [op |-> "create_task", mod |-> "services", tg_id |-> call.tg_id,
   user_id |-> call.user_id, outcome |-> outcome, task_id |-> task_id]

StartSvcCreateTask(c, tg_ids) ==
  /\ CanStart(c)
  /\ \E tg_id \in tg_ids :
       calls' = [calls EXCEPT ![c] =
         [op |-> "svc_create_task", pc |-> "select", tg_id |-> tg_id,
          user_id |-> NoRow]]
  /\ UNCHANGED <<users, solutions, tasks, ret>>

\* user = await session.scalar(select(User).where(User.tg_id == tg_id))
\* if not user: user = await add_user(tg_id=tg_id), which returns None at
\* once for a falsy tg_id; task = Task(user_id=user.id, ...) then raises
SvcCreateTaskSelect(c) ==
  /\ At(c, "svc_create_task", "select")
  /\ LET user_id == UserIdByTg(calls[c].tg_id) IN
       IF user_id # NoRow
       THEN /\ calls' = [calls EXCEPT ![c] =
                 [@ EXCEPT !.pc = "commit", !.user_id = user_id]]
            /\ UNCHANGED ret
       ELSE IF calls[c].tg_id # 0
       THEN calls' = Goto(c, "add_user_select") /\ UNCHANGED ret
       ELSE Return(c, TaskResponse(calls[c], "crash", NoRow))
  /\ UNCHANGED <<users, solutions, tasks>>

\* add_user, called by create_task_for_tg: the lookup in its own session
SvcCreateTaskAddUserSelect(c) ==
  /\ At(c, "svc_create_task", "add_user_select")
  /\ LET user_id == UserIdByTg(calls[c].tg_id) IN
       calls' = IF user_id # NoRow
                THEN [calls EXCEPT ![c] =
                        [@ EXCEPT !.pc = "commit", !.user_id = user_id]]
                ELSE Goto(c, "add_user_commit")
  /\ UNCHANGED <<users, solutions, tasks, ret>>

\* add_user, called by create_task_for_tg: the insert and its commit; the
\* refresh that follows reloads the row, of which only the id is read
SvcCreateTaskAddUserCommit(c) ==
  /\ At(c, "svc_create_task", "add_user_commit")
  /\ users' = Append(users, NewUserRow(calls[c].tg_id))
  /\ calls' = [calls EXCEPT ![c] =
        [@ EXCEPT !.pc = "commit", !.user_id = Len(users) + 1]]
  /\ UNCHANGED <<solutions, tasks, ret>>

\* session.add(task); await session.commit(); await session.refresh(task);
\* return {...}: no handler writes a task row it did not insert or name
SvcCreateTaskCommit(c) ==
  /\ At(c, "svc_create_task", "commit")
  /\ tasks' = Append(tasks, [user_id |-> calls[c].user_id,
                             completed |-> FALSE])
  /\ Return(c, TaskResponse(calls[c], "ok", Len(tasks) + 1))
  /\ UNCHANGED <<users, solutions>>

(***************************************************************************)
(* The concurrent specification: registrations and submissions.            *)
(***************************************************************************)
\* messaging ids of the requests: 0 and one other
TgIds == {0, 7}

\* messaging ids of the submissions
SolveTgIds == {7}

\* user ids passed to services.check_solution: 2 names a row only after a
\* second insert
UserIds == {1, 2}

\* problem ids of the requests: the catalogue and one id past it
RequestProblemIds == 1..(Len(problems) + 1)

\* submitted answers: the stored answer of either problem
ScoreAnswers == {problems[p].correct_answer : p \in ProblemIds}

Next ==
  \/ \E c \in Calls : StartSvcAddUser(c, TgIds)
  \/ \E c \in Calls : SvcAddUserSelect(c)
  \/ \E c \in Calls : SvcAddUserCommit(c)
  \/ \E c \in Calls : SvcAddUserRefresh(c)
  \/ \E c \in Calls :
       StartSvcCheckSolution(c, UserIds, RequestProblemIds, ScoreAnswers)
  \/ \E c \in Calls : SvcCheckSelect(c)
  \/ \E c \in Calls : SvcCheckCommit(c)
  \/ \E c \in Calls : SvcCheckRefresh(c)
  \/ \E c \in Calls :
       StartSolveProblem(c, SolveTgIds, RequestProblemIds, ScoreAnswers)
  \/ \E c \in Calls : SolveAddUserSelect(c)
  \/ \E c \in Calls : SolveAddUserCommit(c)
  \/ \E c \in Calls : RqCheckSelect(c)
  \/ \E c \in Calls : RqCheckCommit(c)

Spec == Init /\ [][Next]_vars

(***************************************************************************)
(* Statistics read while submissions commit.                               *)
(***************************************************************************)
\* submissions of the statistics runs: all correct or all wrong for problem 1
StatsProblemIds == {1}

NextStats ==
  \/ \E c \in Calls :
       StartSolveProblem(c, SolveTgIds, StatsProblemIds, ScoreAnswers)
  \/ \E c \in Calls : SolveAddUserSelect(c)
  \/ \E c \in Calls : SolveAddUserCommit(c)
  \/ \E c \in Calls : RqCheckSelect(c)
  \/ \E c \in Calls : RqCheckCommit(c)
  \/ \E c \in Calls : StartSvcGetUserStats(c, UserIds)
  \/ \E c \in Calls : SvcStatsSelect(c)
  \/ \E c \in Calls : SvcStatsCountAll(c)
  \/ \E c \in Calls : SvcStatsCountMath(c)
  \/ \E c \in Calls : SvcStatsCountInformatics(c)
  \/ \E c \in Calls : StartGetStats(c, SolveTgIds)
  \/ \E c \in Calls : StatsAddUserSelect(c)
  \/ \E c \in Calls : StatsAddUserCommit(c)
  \/ \E c \in Calls : RqStatsSelect(c)
  \/ \E c \in Calls : RqStatsCountAll(c)
  \/ \E c \in Calls : RqStatsCountMath(c)
  \/ \E c \in Calls : RqStatsCountInformatics(c)

SpecStats == Init /\ [][NextStats]_vars

(***************************************************************************)
(* Registrations and task creation.                                        *)
(***************************************************************************)
NextTasks ==
  \/ \E c \in Calls : StartSvcAddUser(c, TgIds)
  \/ \E c \in Calls : SvcAddUserSelect(c)
  \/ \E c \in Calls : SvcAddUserCommit(c)
  \/ \E c \in Calls : SvcAddUserRefresh(c)
  \/ \E c \in Calls : StartSvcCreateTask(c, TgIds)
  \/ \E c \in Calls : SvcCreateTaskSelect(c)
  \/ \E c \in Calls : SvcCreateTaskAddUserSelect(c)
  \/ \E c \in Calls : SvcCreateTaskAddUserCommit(c)
  \/ \E c \in Calls : SvcCreateTaskCommit(c)

SpecTasks == Init /\ [][NextTasks]_vars

(***************************************************************************)
(* Requests handled one after the other, over wider inputs.                *)
(***************************************************************************)
\* no handler is between two awaits
Quiet == \A d \in Calls : calls[d].pc \in {"idle", "done"}

\* submitted answers: orderings, subsets, duplicates, padding, case
WideAnswers ==
  { <<"2", ";", "3">>, <<"3", ";", "2">>, <<"2">>, <<"3", ",", "2">>,
    <<" ", "2", ";", " ", "3">>, <<"2", ";", "3", ";", "2">>,
    <<"2", ";", "3", ";">>, <<"O", " ", "n">>, <<"o", "n">>,
    <<" ", "o", " ", "N", " ">> }

\* subject and difficulty parameters: absent, empty, members, a non-member
SubjectArgs == {Absent, "", "math", "informatics", "physics"}

DifficultyArgs == {Absent, "", "easy", "medium", "expert"}

NextSeq ==
  \/ \E c \in Calls : Quiet /\ StartSvcAddUser(c, SolveTgIds)
  \/ \E c \in Calls : SvcAddUserSelect(c)
  \/ \E c \in Calls : SvcAddUserCommit(c)
  \/ \E c \in Calls : SvcAddUserRefresh(c)
  \/ \E c \in Calls :
       Quiet /\ StartSvcCheckSolution(c, {1}, ProblemIds, WideAnswers)
  \/ \E c \in Calls : SvcCheckSelect(c)
  \/ \E c \in Calls : SvcCheckCommit(c)
  \/ \E c \in Calls : SvcCheckRefresh(c)
  \/ \E c \in Calls :
       Quiet /\ StartSolveProblem(c, SolveTgIds, ProblemIds, WideAnswers)
  \/ \E c \in Calls : SolveAddUserSelect(c)
  \/ \E c \in Calls : SolveAddUserCommit(c)
  \/ \E c \in Calls : RqCheckSelect(c)
  \/ \E c \in Calls : RqCheckCommit(c)
  \/ \E c \in Calls :
       Quiet /\ StartSvcGetProblems(c, SubjectArgs, DifficultyArgs)
  \/ \E c \in Calls : SvcGetProblemsSelect(c)
  \/ \E c \in Calls :
       Quiet /\ StartApiGetProblems(c, SubjectArgs, DifficultyArgs)
  \/ \E c \in Calls : RqGetProblemsSelect(c)

SpecSeq == Init /\ [][NextSeq]_vars

(***************************************************************************)
(* Properties.                                                             *)
(***************************************************************************)
\* call c is a check_solution about to commit
IsCheckCommit(c) ==
  /\ calls[c].pc = "commit"
  /\ calls[c].op \in {"svc_check_solution", "solve_problem"}

\* the step taken is the commit of call c
CommitStep(c) == IsCheckCommit(c) /\ calls'[c] # calls[c]

\* a check_solution has just returned
Checked == ret.op = "check_solution"

\* C1: every user row has level = floor(score / 100) + 1.
C1_LevelFollowsScore ==
  \A u \in DOMAIN users :
     users[u].level = (users[u].score \div LevelStep) + 1

\* C2: a user's score changes only in the commit of a submission judged
\* correct for that user, and then it grows by exactly the problem's points.
C2_ScoreGrowsByPoints ==
  [][\A u \in DOMAIN users :
       users'[u].score # users[u].score =>
         \E c \in Calls :
            /\ CommitStep(c)
            /\ calls[c].is_correct
            /\ calls[c].user_id = u
            /\ users'[u].score
                 = users[u].score + problems[calls[c].problem].points]_vars

\* C3: at most one user row per messaging id.
C3_OneUserPerTgId ==
  \A i, j \in DOMAIN users : users[i].tg_id = users[j].tg_id => i = j

\* C4: a check_solution on an existing user and problem appends exactly one
\* solution row, whose is_correct is the returned 'correct'; judged incorrect
\* it leaves the users table as it is and returns points_earned 0, the score
\* it read and the stored answer; judged correct it returns no answer.
C4_Response ==
  (Checked /\ ret.outcome = "ok") =>
     /\ ret.user_found /\ ret.problem_found
     /\ ret.row \in DOMAIN solutions
     /\ solutions[ret.row] = SolutionRow(ret.user_id, ret.problem_id,
                                         ret.user_answer, ret.correct)
     /\ ~ret.correct =>
          /\ ret.points_earned = 0
          /\ ret.new_score = ret.read_score
          /\ ret.correct_answer = problems[ret.problem_id].correct_answer
     /\ ret.correct => ret.correct_answer = NoneStr

C4_Frame ==
  /\ \A c \in Calls :
        CommitStep(c) =>
          /\ solutions' = Append(solutions, solutions'[Len(solutions')])
          /\ solutions'[Len(solutions')].is_correct = calls[c].is_correct
          /\ ~calls[c].is_correct => users' = users
  /\ solutions' # solutions => \E c \in Calls : CommitStep(c)

\* C4: every returned check_solution satisfies C4_Response and every step
\* satisfies C4_Frame: one row per call, flagged as returned; an incorrect
\* submission changes no user row and reports no points and the stored answer.
C4_IncorrectLeavesScore == []C4_Response /\ [][C4_Frame]_vars

\* C4 witness: an incorrect submission of a user who has points returned
C4_Witness ==
  /\ Checked /\ ret.outcome = "ok" /\ ~ret.correct
  /\ ret.mod = "requests"
  /\ ret.new_score > 0
  /\ users[ret.user_id].score = ret.new_score
  /\ Len(solutions) = 2

\* C5: a check_solution whose user or problem was not found returns the
\* NotFound error value and inserts nothing; every solution row names a user
\* row and a problem row.
C5_NotFound ==
  /\ (Checked /\ ~(ret.problem_found /\ ret.user_found)) =>
        ret.outcome = "notfound" /\ ret.row = NoRow
  /\ \A i \in DOMAIN solutions :
        /\ solutions[i].user_id \in DOMAIN users
        /\ solutions[i].problem_id \in ProblemIds

\* C6: against a stored answer with a delimiter, a submission is judged
\* correct exactly when the two sets of normalized non-empty parts are equal.
C6_SetEquality ==
  (Checked /\ ret.outcome = "ok"
     /\ HasDelimiter(problems[ret.problem_id].correct_answer)) =>
    (ret.correct <=>
       AnswerToSet(ret.user_answer)
         = AnswerToSet(problems[ret.problem_id].correct_answer))

\* C7: the statistics returned for an existing user have
\* math_solved + informatics_solved = solved_count.
C7_SubjectsAddUp ==
  (ret.op = "get_user_stats" /\ ret.outcome = "ok") =>
     ret.math_solved + ret.informatics_solved = ret.solved_count

\* C8: get_problems returns, for any parameters, the catalogue filtered on
\* the parameters that name a subject or a difficulty, and never fails.
C8_LenientFilters ==
  ret.op = "get_problems" =>
     /\ ret.outcome = "ok"
     /\ ret.result = SelectProblems(ret.subject \in Subject, ret.subject,
                                    ret.difficulty \in Difficulty,
                                    ret.difficulty)

\* C9: services.add_user(tg_id) returns a user row with that tg_id, for 0
\* too, and create_task_for_tg never lacks the user.
C9_AddUserReturnsUser ==
  /\ (ret.op = "add_user") =>
        /\ ret.user_id \in DOMAIN users
        /\ users[ret.user_id].tg_id = ret.tg_id
  /\ (ret.op = "create_task") => ret.outcome = "ok"

\* the points of the submissions judged correct among the first n rows
RECURSIVE PointsOf(_, _)
PointsOf(u, n) ==
  IF n = 0 THEN 0
  ELSE PointsOf(u, n - 1)
       + (IF solutions[n].user_id = u /\ solutions[n].is_correct
          THEN problems[solutions[n].problem_id].points ELSE 0)

\* C10: a user's score is the sum of the points of the user's solution rows
\* judged correct.
C10_ScoreIsSumOfPoints ==
  \A u \in DOMAIN users : users[u].score = PointsOf(u, Len(solutions))

====
